---- MODULE Spec2Model ----
(***************************************************************************)
(* Model of automock (src/automock/base.py, src/automock/utils.py): the    *)
(* factory registry, the patch lifecycle (start_patching / stop_patching)  *)
(* and the scoped constructs swap_mock, unmock and activate.               *)
(*                                                                         *)
(* mock.patch(path, new=m) is modelled by what it does: entering saves the *)
(* value found at the location and writes m there, leaving writes the      *)
(* saved value back.  mock.patch.dict(d, {k: m}) saves a copy of the whole *)
(* dict on entry and, on exit, clears the dict and refills it from the     *)
(* copy.                                                                   *)
(*                                                                         *)
(* Extents (with-blocks and calls of decorated functions) nest, so the     *)
(* open ones form a stack and only the innermost one can end.  The wrapped *)
(* code may call any operation, and may raise.                             *)
(*                                                                         *)
(* Spec is the whole program, with register running before the first       *)
(* substitute is built (the import-time registrations) and the deferred    *)
(* registrations of settings.REGISTRATION_IMPORTS running in _pre_import.  *)
(* SpecLifecycle is start_patching / stop_patching with register called at *)
(* any time, under the default settings (no registration imports) or the   *)
(* test suite's.  Both are bounded by MaxMocks, the number of substitutes  *)
(* the factories build; the model keeps two paths and one swap_mock        *)
(* decorator.                                                              *)
(*                                                                         *)
(* SpecUtils is the two utilities of utils.py, multiple and conditional,   *)
(* used as with-blocks and as decorators over the dummy contexts of the    *)
(* tests, one of which may fail in its __exit__; multiple wraps at most    *)
(* MaxContexts of them.                                                    *)
(*                                                                         *)
(* SpecInspect is a test that patches, swaps in with-blocks, calls the     *)
(* patched functions and reads get_called_mocks; `called` holds the        *)
(* substitutes whose mock.called is set.                                   *)
(***************************************************************************)
EXTENDS Integers, Sequences, FiniteSets, TLC

(* ---- bounds of the model ---- *)
MaxMocks == 3        \* substitutes built by the factories in one behaviour
MaxContexts == 2     \* contexts wrapped by one multiple(...)

(* ---- the inputs ---- *)
Paths == {"f", "g"}
None == "None"
DefaultFactory == "MagicMock"
RaisingFactory == "raising_factory"
\* the factories handed to register directly: the default one, and one that raises
Factories == {DefaultFactory, RaisingFactory}
\* settings.REGISTRATION_IMPORTS, as the tests configure it
REGISTRATION_IMPORTS == {"automocks"}
\* settings.REGISTRATION_IMPORTS, as conf/defaults.py sets it
DefaultImports == {}
NoArgs == "()"
SwapArgs == "mockery"   \* the arguments a swap_mock passes to the factory
Forms == {"with", "decorator"}

\* the module named by settings.REGISTRATION_IMPORTS, and the register call its import runs
RegModule == "automocks"
RegModulePath == "g"
RegModuleFactory == "mock_factory"

(* ---- values found at a location ---- *)
Real(path) == [fac |-> "real", arg |-> path, ser |-> 0]
NewMock(factory, args, ser) == [fac |-> factory, arg |-> args, ser |-> ser]
NoValue == [fac |-> "none", arg |-> "none", ser |-> 0]
IsMock(v) == v.ser > 0
\* substitutes are told apart by a serial number: the n-th one built carries n

(* ---- Python dicts ---- *)
\* an insertion-ordered dict is a sequence of [k, v] entries
Keys(d) == {d[i].k : i \in DOMAIN d}
Has(d, key) == key \in Keys(d)
Get(d, key) == d[CHOOSE i \in DOMAIN d : d[i].k = key].v
DictSet(d, key, val) ==
    IF Has(d, key)
    THEN LET i == CHOOSE j \in DOMAIN d : d[j].k = key
         IN SubSeq(d, 1, i - 1) \o <<[k |-> key, v |-> val]>> \o SubSeq(d, i + 1, Len(d))
    ELSE Append(d, [k |-> key, v |-> val])
DictDel(d, key) == SelectSeq(d, LAMBDA e : e.k # key)
\* a dict whose order is never observed is a function on its keys
EmptyMap == [x \in {} |-> NoValue]
MapSet(m, key, val) == [x \in (DOMAIN m) \cup {key} |-> IF x = key THEN val ELSE m[x]]
MapDel(m, key) == [x \in (DOMAIN m) \ {key} |-> m[x]]

VARIABLES
    _factory_map,          \* ordered dict: path -> factory
    _patchers,             \* ordered dict: path -> patcher [new, temp_original]
    _mocks,                \* dict: path -> substitute
    loc,                   \* the value each path resolves to
    sys_modules,           \* modules already imported
    settings,              \* settings.REGISTRATION_IMPORTS in force
    decorators,            \* swap_mock objects constructed as decorators
    stack,                 \* open scoped extents, innermost last
    nmocks,                \* substitutes built so far
    last,                  \* the operation that ran last and how it ended
    multiple,              \* a MultipleContextDecorator over dummy contexts, and its use
    conditional,           \* a ConditionalContextDecorator over a dummy context, and its use
    called                 \* serials of the substitutes that were invoked (mock.called)

utilsVars == <<multiple, conditional>>
baseVars == <<_factory_map, _patchers, _mocks, loc, sys_modules, settings, decorators, stack,
              nmocks, last, called>>
vars == <<_factory_map, _patchers, _mocks, loc, sys_modules, settings, decorators, stack,
          nmocks, last, multiple, conditional, called>>

\* the part of the state the lifecycle functions read and write
Cur == [fm |-> _factory_map, patchers |-> _patchers, mocks |-> _mocks, loc |-> loc,
        mods |-> sys_modules, nmocks |-> nmocks,
        err |-> "none", warned |-> FALSE]

FullyUnpatched(st) ==
    /\ st.patchers = <<>>
    /\ DOMAIN st.mocks = {}
    /\ \A p \in Paths : st.loc[p] = Real(p)

(* ---- register ---- *)
\* (C24 mutant) register leaves an identifier that is already registered alone
register_first_writer_wins(fm, func_path, factory) ==
    IF Has(fm, func_path) THEN fm ELSE DictSet(fm, func_path, factory)

register(fm, func_path, factory) == DictSet(fm, func_path, factory)

\* the decorator register returns, applied to a function
register_decorator(fm, func_path, decorated_factory) ==
    DictSet(fm, func_path, decorated_factory)

(* ---- _pre_import ---- *)
_pre_import(st) ==
    IF RegModule \in settings /\ RegModule \notin st.mods
    THEN [st EXCEPT !.mods = @ \cup {RegModule},
                    !.fm = register(@, RegModulePath, RegModuleFactory)]
    ELSE st

(* ---- mock.patch(path, new=...) and mock.patch.dict(_mocks, {path: new}) ---- *)
patch_enter(st, path, new) == [st EXCEPT !.loc = [@ EXCEPT ![path] = new]]
\* (C11 mutant) leaving mock.patch writes the real implementation back, whatever it saved
patch_exit_to_real(st, path, temp_original) == [st EXCEPT !.loc = [@ EXCEPT ![path] = Real(path)]]
patch_exit(st, path, temp_original) == [st EXCEPT !.loc = [@ EXCEPT ![path] = temp_original]]
patch_dict_enter(st, path, new) == [st EXCEPT !.mocks = MapSet(@, path, new)]
patch_dict_exit(st, _original) == [st EXCEPT !.mocks = _original]

(* ---- start_patching ---- *)
\* (C6 mutant) the loop builds every substitute with the default factory
StartItemDefaultFactory(st, name, factory) ==
    LET new == NewMock(DefaultFactory, NoArgs, st.nmocks + 1)
        patcher == [new |-> new, temp_original |-> st.loc[name]]
        started == patch_enter(st, name, new)
    IN [started EXCEPT !.nmocks = @ + 1,
                       !.patchers = DictSet(@, name, patcher),
                       !.mocks = MapSet(@, name, new)]

\* one turn of the loop: build the substitute, start a patcher, record both
StartItem(st, name, factory) ==
    LET new == NewMock(factory, NoArgs, st.nmocks + 1)
        patcher == [new |-> new, temp_original |-> st.loc[name]]
        started == patch_enter(st, name, new)
    IN [started EXCEPT !.nmocks = @ + 1,
                       !.patchers = DictSet(@, name, patcher),
                       !.mocks = MapSet(@, name, new)]

\* (C17 mutant) the loop notes the error of a raising factory and goes on
RECURSIVE StartItemsPastFailure(_, _)
StartItemsPastFailure(st, items) ==
    IF items = <<>> THEN st
    ELSE LET name == Head(items).k
             factory == Head(items).v
         IN IF factory = RaisingFactory
            THEN StartItemsPastFailure([st EXCEPT !.err = "FactoryError"], Tail(items))
            ELSE StartItemsPastFailure(StartItem(st, name, factory), Tail(items))

RECURSIVE StartItems(_, _)
StartItems(st, items) ==
    IF items = <<>> THEN st
    ELSE LET name == Head(items).k
             factory == Head(items).v
         IN IF factory = RaisingFactory
            THEN [st EXCEPT !.err = "FactoryError"]
            ELSE StartItems(StartItem(st, name, factory), Tail(items))

start_patching(st0, name) ==
    LET st1 == [st0 EXCEPT !.warned = (st0.patchers # <<>> /\ name = None)]
        st == _pre_import(st1)
    IN IF name # None
       THEN IF Has(st.fm, name)
            THEN StartItems(st, <<[k |-> name, v |-> Get(st.fm, name)]>>)
            ELSE [st EXCEPT !.err = "KeyError"]
       ELSE StartItems(st, st.fm)

\* substitutes start_patching(name) builds when no factory raises
StartCost(st, name) == IF name # None THEN 1 ELSE Len(_pre_import(st).fm)

(* ---- stop_patching ---- *)
RECURSIVE StopItems(_, _)
StopItems(st, items) ==
    IF items = <<>> THEN st
    ELSE LET name == Head(items).k
             patcher == Head(items).v
             stopped == patch_exit(st, name, patcher.temp_original)
             removed == [stopped EXCEPT !.patchers = DictDel(@, name)]
         IN IF name \in DOMAIN st.mocks
            THEN StopItems([removed EXCEPT !.mocks = MapDel(@, name)], Tail(items))
            ELSE [removed EXCEPT !.err = "KeyError"]

\* (C5 mutant) stop_patching() stops the first patcher only
stop_patching_first_only(st0, name) ==
    LET st == [st0 EXCEPT !.warned = (st0.patchers = <<>>)]
    IN IF name # None
       THEN IF Has(st.patchers, name)
            THEN StopItems(st, <<[k |-> name, v |-> Get(st.patchers, name)]>>)
            ELSE [st EXCEPT !.err = "KeyError"]
       ELSE StopItems(st, IF st.patchers = <<>> THEN <<>> ELSE <<Head(st.patchers)>>)

\* (C15 mutant) stop_patching(name) does nothing for a name that has no patcher
stop_patching_ignores_absent(st0, name) ==
    LET st == [st0 EXCEPT !.warned = (st0.patchers = <<>>)]
    IN IF name # None
       THEN IF Has(st.patchers, name)
            THEN StopItems(st, <<[k |-> name, v |-> Get(st.patchers, name)]>>)
            ELSE st
       ELSE StopItems(st, st.patchers)

\* (C16 mutant) stop_patching(name) stops every patcher
stop_patching_every_patcher(st0, name) ==
    LET st == [st0 EXCEPT !.warned = (st0.patchers = <<>>)]
    IN IF name # None
       THEN IF Has(st.patchers, name)
            THEN StopItems(st, st.patchers)
            ELSE [st EXCEPT !.err = "KeyError"]
       ELSE StopItems(st, st.patchers)

\* (C18 mutant) stop_patching() raises when nothing is patched
stop_patching_raises_when_stopped(st0, name) ==
    LET st == [st0 EXCEPT !.warned = (st0.patchers = <<>>)]
    IN IF name # None
       THEN IF Has(st.patchers, name)
            THEN StopItems(st, <<[k |-> name, v |-> Get(st.patchers, name)]>>)
            ELSE [st EXCEPT !.err = "KeyError"]
       ELSE IF st.patchers = <<>>
            THEN [st EXCEPT !.err = "KeyError"]
            ELSE StopItems(st, st.patchers)

stop_patching(st0, name) ==
    LET st == [st0 EXCEPT !.warned = (st0.patchers = <<>>)]
    IN IF name # None
       THEN IF Has(st.patchers, name)
            THEN StopItems(st, <<[k |-> name, v |-> Get(st.patchers, name)]>>)
            ELSE [st EXCEPT !.err = "KeyError"]
       ELSE StopItems(st, st.patchers)

(* ---- SwapMockContextDecorator ---- *)
\* __init__: look the factory up and build the substitute
SwapInitResult(st, _path, args) ==
    IF ~Has(st.fm, _path) THEN [err |-> "KeyError", new |-> NoValue]
    ELSE IF Get(st.fm, _path) = RaisingFactory THEN [err |-> "FactoryError", new |-> NoValue]
    ELSE [err |-> "none", new |-> NewMock(Get(st.fm, _path), args, st.nmocks + 1)]

\* (C8 mutant) __enter__ enters mock.patch only
swap_enter_location_only(st, _path, new) == patch_enter(st, _path, new)

\* __enter__: enter the two wrapped contexts, mock.patch, then mock.patch.dict
swap_enter(st, _path, new) == patch_dict_enter(patch_enter(st, _path, new), _path, new)

\* (C7 mutant) __exit__ leaves mock.patch only
swap_exit_location_only(st, frame) == patch_exit(st, frame.path, frame.temp_original)

\* __exit__: leave them, in the same order
swap_exit(st, frame) == patch_dict_exit(patch_exit(st, frame.path, frame.temp_original),
                                        frame._original)

\* __call__: mock.patch decorates the function, mock.patch.dict decorates the result,
\* so a call enters mock.patch.dict first and leaves it last
swap_decorated_enter(st, _path, new) ==
    patch_enter(patch_dict_enter(st, _path, new), _path, new)
swap_decorated_exit(st, frame) ==
    patch_dict_exit(patch_exit(st, frame.path, frame.temp_original), frame._original)

\* (C10 mutant) the decorated call restores nothing when the function raises
swap_leave_unless_raised(st, frame, form, raised) ==
    IF form = "decorator" /\ raised THEN st
    ELSE swap_exit(st, frame)

\* the extent ends: the with statement calls __exit__, the decorators of mock unwind
\* in a finally clause, whether or not the wrapped code raised
swap_leave(st, frame, form, raised) ==
    IF form = "with" THEN swap_exit(st, frame) ELSE swap_decorated_exit(st, frame)

\* An open extent.  dec: the decorator entered (0: a with-block's own object).  Whether
\* an unmock or activate extent is a with-block or a decorated call shows only when it
\* ends, so the form of those is drawn there.
Frame(kind, path, new, temp_original, _original, dec) ==
    [kind |-> kind, path |-> path, new |-> new,
     temp_original |-> temp_original, _original |-> _original, dec |-> dec]
FrameForms(frame) ==
    IF frame.kind = "swap_mock"
    THEN {IF frame.dec = 0 THEN "with" ELSE "decorator"}
    ELSE Forms

(* ---- get_mock and get_called_mocks ---- *)
get_mock(mocks, name) == mocks[name]

\* (C23 mutant) get_called_mocks returns every active substitute
get_called_mocks_unfiltered(mocks, were_called) == mocks

\* the entries of _mocks whose substitute has mock.called set
get_called_mocks(mocks, were_called) ==
    [name \in {n \in DOMAIN mocks : mocks[n].ser \in were_called} |-> mocks[name]]

(* ---- the dummy contexts the utilities are used over ---- *)
Values == {"wtf", "dude"}
\* DummyContext(value); exit_raises: its __exit__ raises instead of disabling it
DummyContext(value, exit_raises) ==
    [value |-> value, enabled |-> FALSE, exit_raises |-> exit_raises]
ContextInputs == {DummyContext(v, r) : v \in Values, r \in BOOLEAN}
\* the argument lists multiple(...) is constructed with
ObjectLists == UNION {[1..n -> ContextInputs] : n \in 0..MaxContexts}
\* __enter__ / __exit__ of the obj-th wrapped context was invoked
Event(ev, obj) == [ev |-> ev, obj |-> obj]

\* DummyContext.__enter__, __exit__ and the two halves of the function __call__ returns,
\* for the i-th object wrapped by the multiple m
Dummy__enter__(m, i) ==
    [m EXCEPT !._objects[i].enabled = TRUE, !.log = Append(@, Event("enter", i))]
Dummy__exit__(m, i) ==
    IF m._objects[i].exit_raises
    THEN [m EXCEPT !.log = Append(@, Event("exit", i)), !.err = "ExitError"]
    ELSE [m EXCEPT !._objects[i].enabled = FALSE, !.log = Append(@, Event("exit", i))]
DummyWrappedBefore(m, i) ==
    [m EXCEPT !._objects[i].enabled = TRUE, !.log = Append(@, Event("enter", i))]
DummyWrappedAfter(m, i) ==
    [m EXCEPT !._objects[i].enabled = FALSE, !.log = Append(@, Event("exit", i))]

(* ---- MultipleContextDecorator ---- *)
NoMultiple ==
    [_objects |-> <<>>, _contexts |-> <<>>, log |-> <<>>, pc |-> "none", err |-> "none",
     raised |-> FALSE]
Multiple__init__(context_decorators) ==
    [_objects |-> context_decorators, _contexts |-> <<>>, log |-> <<>>, pc |-> "made",
     err |-> "none", raised |-> FALSE]

\* __getitem__ and __len__
Multiple__getitem__(m, key) == m._objects[m._contexts[key]]
Multiple__len__(m) == Len(m._contexts)

\* (C21 mutant) __enter__ collects what the objects yield last-entered first
RECURSIVE EnterFromPrepending(_, _)
EnterFromPrepending(m, i) ==
    IF i > Len(m._objects) THEN m
    ELSE EnterFromPrepending([Dummy__enter__(m, i) EXCEPT !._contexts = <<i>> \o @], i + 1)
Multiple__enter__prepending(m) == EnterFromPrepending([m EXCEPT !._contexts = <<>>], 1)

\* __enter__: enter every object in turn and collect what each yields (itself)
RECURSIVE EnterFrom(_, _)
EnterFrom(m, i) ==
    IF i > Len(m._objects) THEN m
    ELSE EnterFrom([Dummy__enter__(m, i) EXCEPT !._contexts = Append(@, i)], i + 1)
Multiple__enter__(m) == EnterFrom([m EXCEPT !._contexts = <<>>], 1)

\* __exit__: leave every object in the same order; a raising __exit__ ends the loop
RECURSIVE ExitFrom(_, _)
ExitFrom(m, i) ==
    IF i > Len(m._objects) THEN m
    ELSE LET left == Dummy__exit__(m, i)
         IN IF left.err # "none" THEN left ELSE ExitFrom(left, i + 1)
Multiple__exit__(m) == ExitFrom(m, 1)

\* __call__: decorated = objects[n](...objects[1](f)); a call runs the wrappers from
\* the outermost, objects[n], inwards, and they finish from the innermost outwards
RECURSIVE CallInwards(_, _)
CallInwards(m, i) ==
    IF i = 0 THEN m ELSE CallInwards(DummyWrappedBefore(m, i), i - 1)
RECURSIVE ReturnOutwards(_, _)
ReturnOutwards(m, i) ==
    IF i > Len(m._objects) THEN m ELSE ReturnOutwards(DummyWrappedAfter(m, i), i + 1)
\* (C22 mutant) the first object is the outermost wrapper
RECURSIVE CallFirstOutermost(_, _)
CallFirstOutermost(m, i) ==
    IF i > Len(m._objects) THEN m ELSE CallFirstOutermost(DummyWrappedBefore(m, i), i + 1)
MultipleDecoratedCallFirstOutermost(m) == CallFirstOutermost(m, 1)
MultipleDecoratedCall(m) == CallInwards(m, Len(m._objects))
\* the wrappers of DummyContext have no finally clause
MultipleDecoratedReturn(m, raised) ==
    IF raised THEN m ELSE ReturnOutwards(m, 1)

(* ---- ConditionalContextDecorator ---- *)
\* _condition: a fixed boolean, or a callable; value: the boolean, or what calling
\* the callable returns at present
NoConditional ==
    [_condition |-> [callable |-> FALSE, value |-> FALSE],
     context_object |-> DummyContext("wtf", FALSE),
     pc |-> "none", decorated |-> FALSE, at_decoration |-> FALSE,
     entered |-> FALSE, exited |-> FALSE, yield |-> None, applied |-> FALSE]
Conditional__init__(_condition, context_object) ==
    [NoConditional EXCEPT !._condition = _condition, !.context_object = context_object,
                          !.pc = "made"]

\* the condition property
condition(c) == c._condition.value

Conditional__enter__(c) ==
    IF condition(c)
    THEN [c EXCEPT !.context_object.enabled = TRUE, !.entered = TRUE,
                   !.yield = "context_object"]
    ELSE [c EXCEPT !.yield = None]

Conditional__exit__(c) ==
    IF condition(c)
    THEN [c EXCEPT !.context_object.enabled = FALSE, !.exited = TRUE]
    ELSE c

\* (C20 mutant) the decorated function uses the condition found when it was decorated
ConditionalWrappedAtDecoration(c) ==
    IF c.at_decoration
    THEN [c EXCEPT !.context_object.enabled = TRUE, !.applied = TRUE]
    ELSE [c EXCEPT !.applied = FALSE]

\* wrapped(*args): context_object(f)(*args) if the condition holds now, else f(*args)
ConditionalWrapped(c) ==
    IF condition(c)
    THEN [c EXCEPT !.context_object.enabled = TRUE, !.applied = TRUE]
    ELSE [c EXCEPT !.applied = FALSE]
\* the call returns, through the wrapper of context_object if it was applied
ConditionalWrappedReturn(c, raised) ==
    IF c.applied /\ ~raised
    THEN [c EXCEPT !.context_object.enabled = FALSE]
    ELSE c

(* ---- the record of the last operation ---- *)
Done(op, path, form, raised, st, yield) ==
    [op |-> op, path |-> path, form |-> form, raised |-> raised, err |-> st.err,
     warned |-> st.warned, yield |-> yield,
     \* this call is start_patching() run to completion in a fully unpatched state
     clean_start |-> (op = "start_patching" /\ path = None /\ st.err = "none"
                       /\ FullyUnpatched(Cur)),
     \* the call before this one was such a start_patching()
     after_clean_start |-> last.clean_start]

\* write back what a lifecycle function left behind
Commit(st) ==
    /\ _factory_map' = st.fm
    /\ _patchers' = st.patchers
    /\ _mocks' = st.mocks
    /\ loc' = st.loc
    /\ sys_modules' = st.mods
    /\ nmocks' = st.nmocks
    /\ UNCHANGED settings
    /\ UNCHANGED <<utilsVars, called>>

\* the state once automock is imported
InitModules ==
    /\ _factory_map = <<>>
    /\ _patchers = <<>>
    /\ _mocks = EmptyMap
    /\ loc = [p \in Paths |-> Real(p)]
    /\ sys_modules = {}
    /\ decorators = <<>>
    /\ stack = <<>>
    /\ nmocks = 0
    /\ last = [op |-> "init", path |-> None, form |-> "call", raised |-> FALSE,
               err |-> "none", warned |-> FALSE, yield |-> NoValue,
               clean_start |-> FALSE, after_clean_start |-> FALSE]
    /\ multiple = NoMultiple
    /\ conditional = NoConditional
    /\ called = {}

\* the test suite's settings
Init == InitModules /\ settings = REGISTRATION_IMPORTS

\* the default settings, or the test suite's
InitLifecycle == InitModules /\ settings \in {DefaultImports, REGISTRATION_IMPORTS}

(* ---- the operations ---- *)
\* Every open unmock extent builds one substitute when it ends: that one is set aside,
\* so that an extent once entered can always be left within the bound.
Reserved == Cardinality({i \in DOMAIN stack : stack[i].kind = "unmock"})
CanBuild(n) == nmocks + Reserved + n <= MaxMocks

\* register runs while the modules are imported, before anything is patched
Register(func_path, factory) ==
    /\ nmocks = 0
    /\ _factory_map' = register(_factory_map, func_path, factory)
    /\ last' = Done("register", func_path, "call", FALSE, Cur, NoValue)
    /\ UNCHANGED <<_patchers, _mocks, loc, sys_modules, settings, decorators, stack, nmocks>>
    /\ UNCHANGED <<utilsVars, called>>

StartPatching(name) ==
    /\ CanBuild(StartCost(Cur, name))
    /\ LET st == start_patching(Cur, name)
       IN /\ Commit(st)
          /\ last' = Done("start_patching", name, "call", FALSE, st, NoValue)
    /\ UNCHANGED <<decorators, stack>>

StopPatching(name) ==
    /\ LET st == stop_patching(Cur, name)
       IN /\ Commit(st)
          /\ last' = Done("stop_patching", name, "call", FALSE, st, NoValue)
    /\ UNCHANGED <<decorators, stack>>

\* with swap_mock(path, args) as mocked: construct, then enter
SwapWith(_path) ==
    /\ CanBuild(1)
    /\ LET made == SwapInitResult(Cur, _path, SwapArgs)
           st == IF made.err = "none"
                 THEN swap_enter([Cur EXCEPT !.nmocks = @ + 1], _path, made.new)
                 ELSE [Cur EXCEPT !.err = made.err]
       IN /\ Commit(st)
          /\ stack' = IF made.err = "none"
                      THEN Append(stack, Frame("swap_mock", _path, made.new,
                                               loc[_path], _mocks, 0))
                      ELSE stack
          /\ last' = Done("swap_enter", _path, "with", FALSE, st, made.new)
    /\ UNCHANGED decorators

\* decorator = swap_mock(path, args): construct only (the model keeps one decorator)
SwapInit(_path) ==
    /\ decorators = <<>>
    /\ CanBuild(1)
    /\ LET made == SwapInitResult(Cur, _path, SwapArgs)
       IN /\ nmocks' = IF made.err = "none" THEN nmocks + 1 ELSE nmocks
          /\ decorators' = IF made.err = "none"
                           THEN Append(decorators, [path |-> _path, new |-> made.new])
                           ELSE decorators
          /\ last' = Done("swap_init", _path, "decorator", FALSE,
                          [Cur EXCEPT !.err = made.err], NoValue)
    /\ UNCHANGED <<_factory_map, _patchers, _mocks, loc, sys_modules, settings, stack>>
    /\ UNCHANGED <<utilsVars, called>>

\* a call of the function decorated with decorators[i]: enter
SwapCall(i) ==
    /\ \A j \in DOMAIN stack : stack[j].dec # i
    /\ LET d == decorators[i]
           st == swap_decorated_enter(Cur, d.path, d.new)
       IN /\ Commit(st)
          /\ stack' = Append(stack, Frame("swap_mock", d.path, d.new,
                                          loc[d.path], _mocks, i))
          /\ last' = Done("swap_enter", d.path, "decorator", FALSE, st, NoValue)
    /\ UNCHANGED decorators

\* unmock(name): __enter__, or the first half of the decorated call
UnmockEnter(name) ==
    /\ CanBuild(1)
    /\ LET st == stop_patching(Cur, name)
       IN /\ Commit(st)
          /\ stack' = IF st.err = "none"
                      THEN Append(stack, Frame("unmock", name, NoValue, NoValue, EmptyMap, 0))
                      ELSE stack
          /\ last' = Done("unmock_enter", name, "any", FALSE, st,
                          IF st.err = "none" THEN st.loc[name] ELSE NoValue)
    /\ UNCHANGED decorators

\* activate(): __enter__, or the first half of the decorated call
ActivateEnter ==
    /\ CanBuild(StartCost(Cur, None))
    /\ LET st == start_patching(Cur, None)
       IN /\ Commit(st)
          /\ stack' = IF st.err = "none"
                      THEN Append(stack, Frame("activate", None, NoValue, NoValue, EmptyMap, 0))
                      ELSE stack
          /\ last' = Done("activate_enter", None, "any", FALSE, st, NoValue)
    /\ UNCHANGED decorators

\* (C14 mutant) the extent ends without patching the path again
unmock_exit_never_restarts(st, name, form, raised) == st

\* UnMockContextDecorator: how the extent ends
unmock_exit(st, name, form, raised) ==
    IF form = "decorator" /\ raised THEN st
    ELSE start_patching(st, name)

\* ActivateContextDecorator: how the extent ends
activate_exit(st, form, raised) ==
    IF form = "decorator" /\ raised THEN st
    ELSE stop_patching(st, None)

\* what leaving the extent `frame` does; raised: the wrapped code raised
ExitResult(st, frame, form, raised) ==
    CASE frame.kind = "swap_mock" -> swap_leave(st, frame, form, raised)
      [] frame.kind = "unmock" -> unmock_exit(st, frame.path, form, raised)
      [] frame.kind = "activate" -> activate_exit(st, form, raised)

Top == stack[Len(stack)]

\* the innermost open extent ends
Exit(form, raised) ==
    /\ stack # <<>>
    /\ form \in FrameForms(Top)
    /\ LET st == ExitResult(Cur, Top, form, raised)
       IN /\ Commit(st)
          /\ last' = Done(Top.kind \o "_exit", Top.path, form, raised, st, NoValue)
    /\ stack' = SubSeq(stack, 1, Len(stack) - 1)
    /\ UNCHANGED decorators

\* register at any time
Reregister(func_path, factory) ==
    /\ _factory_map' = register(_factory_map, func_path, factory)
    /\ last' = Done("register", func_path, "call", FALSE, Cur, NoValue)
    /\ UNCHANGED <<_patchers, _mocks, loc, sys_modules, settings, decorators, stack, nmocks>>
    /\ UNCHANGED <<utilsVars, called>>

Next ==
    \/ \E p \in Paths, fa \in Factories : Register(p, fa)
    \/ \E n \in Paths \cup {None} : StartPatching(n)
    \/ \E n \in Paths \cup {None} : StopPatching(n)
    \/ \E p \in Paths : SwapWith(p)
    \/ \E p \in Paths : SwapInit(p)
    \/ \E i \in DOMAIN decorators : SwapCall(i)
    \/ \E n \in Paths : UnmockEnter(n)
    \/ ActivateEnter
    \/ \E fo \in Forms, r \in BOOLEAN : Exit(fo, r)

Spec == Init /\ [][Next]_vars

\* the lifecycle alone, with the registry changing under it
\* @register(func_path, factory) over the definition of decorated_factory
RegisterDecorated(func_path, factory, decorated_factory) ==
    /\ _factory_map' = register_decorator(register(_factory_map, func_path, factory),
                                          func_path, decorated_factory)
    /\ last' = Done("register", func_path, "decorator", FALSE, Cur, NoValue)
    /\ UNCHANGED <<_patchers, _mocks, loc, sys_modules, settings, decorators, stack, nmocks>>
    /\ UNCHANGED <<utilsVars, called>>

NextLifecycle ==
    \/ \E p \in Paths, fa \in Factories : Reregister(p, fa)
    \/ \E p \in Paths, fa, dfa \in Factories : RegisterDecorated(p, fa, dfa)
    \/ \E n \in Paths \cup {None} : StartPatching(n)
    \/ \E n \in Paths \cup {None} : StopPatching(n)

SpecLifecycle == InitLifecycle /\ [][NextLifecycle]_vars

(* ---- the patched functions called, and the substitutes inspected ---- *)
\* the code under test calls the function at path: a substitute found there notes it
CallLocation(path) ==
    /\ IsMock(loc[path])
    /\ called' = called \cup {loc[path].ser}
    /\ last' = Done("call", path, "call", FALSE, Cur, NoValue)
    /\ UNCHANGED <<_factory_map, _patchers, _mocks, loc, sys_modules, settings, decorators,
                   stack, nmocks, utilsVars>>

GetCalledMocks ==
    /\ last' = Done("get_called_mocks", None, "call", FALSE, Cur,
                    get_called_mocks(_mocks, called))
    /\ UNCHANGED <<_factory_map, _patchers, _mocks, loc, sys_modules, settings, decorators,
                   stack, nmocks, utilsVars, called>>

\* a test: the lifecycle, with-blocks of swap_mock, calls and inspection
NextInspect ==
    \/ \E p \in Paths : Register(p, DefaultFactory)
    \/ \E n \in Paths \cup {None} : StartPatching(n)
    \/ \E n \in Paths \cup {None} : StopPatching(n)
    \/ \E p \in Paths : SwapWith(p)
    \/ \E r \in BOOLEAN : Exit("with", r)
    \/ \E p \in Paths : CallLocation(p)
    \/ GetCalledMocks

SpecInspect == Init /\ [][NextInspect]_vars

(* ---- the utilities of utils.py, used over dummy contexts ---- *)
\* decorator = multiple(c1, ..., cn)
MultipleInit(context_decorators) ==
    /\ multiple.pc \notin {"with", "call"}
    /\ multiple' = Multiple__init__(context_decorators)
    /\ UNCHANGED <<baseVars, conditional>>

\* with multiple(...) as contexts: entry
MultipleEnter ==
    /\ multiple.pc \in {"made", "exited", "returned"}
    /\ multiple' = [Multiple__enter__([multiple EXCEPT !.log = <<>>, !.err = "none",
                                                        !.raised = FALSE])
                        EXCEPT !.pc = "with"]
    /\ UNCHANGED <<baseVars, conditional>>

\* the block ends, normally or because its body raised
MultipleExit(raised) ==
    /\ multiple.pc = "with"
    /\ multiple' = [Multiple__exit__(multiple) EXCEPT !.pc = "exited", !.raised = raised]
    /\ UNCHANGED <<baseVars, conditional>>

\* a call of the function decorated with multiple(...): up to the function's body
MultipleCall ==
    /\ multiple.pc \in {"made", "exited", "returned"}
    /\ multiple' = [MultipleDecoratedCall([multiple EXCEPT !.log = <<>>, !.err = "none",
                                                             !.raised = FALSE])
                        EXCEPT !.pc = "call"]
    /\ UNCHANGED <<baseVars, conditional>>

\* the function's body returns or raises
MultipleReturn(raised) ==
    /\ multiple.pc = "call"
    /\ multiple' = [MultipleDecoratedReturn(multiple, raised)
                        EXCEPT !.pc = "returned", !.raised = raised]
    /\ UNCHANGED <<baseVars, conditional>>

\* decorator = conditional(condition, DummyContext())
ConditionalInit(callable, value) ==
    /\ conditional.pc \notin {"with", "call"}
    /\ conditional' = Conditional__init__([callable |-> callable, value |-> value],
                                          DummyContext("wtf", FALSE))
    /\ UNCHANGED <<baseVars, multiple>>

\* @decorator def test_func: __call__(f) returns wrapped
ConditionalDecorate ==
    /\ conditional.pc = "made"
    /\ ~conditional.decorated
    /\ conditional' = [conditional EXCEPT !.decorated = TRUE,
                                          !.at_decoration = condition(conditional)]
    /\ UNCHANGED <<baseVars, multiple>>

\* what the callable condition returns changes
ConditionChanges ==
    /\ conditional.pc # "none"
    /\ conditional._condition.callable
    /\ conditional' = [conditional EXCEPT !._condition.value = ~@]
    /\ UNCHANGED <<baseVars, multiple>>

\* with conditional(...) as context: entry
ConditionalEnter ==
    /\ conditional.pc \in {"made", "exited", "returned"}
    /\ conditional' = [Conditional__enter__([conditional EXCEPT !.entered = FALSE,
                                                                !.exited = FALSE])
                            EXCEPT !.pc = "with"]
    /\ UNCHANGED <<baseVars, multiple>>

\* the block ends
ConditionalExit ==
    /\ conditional.pc = "with"
    /\ conditional' = [Conditional__exit__(conditional) EXCEPT !.pc = "exited"]
    /\ UNCHANGED <<baseVars, multiple>>

\* a call of the decorated function: up to the function's body
ConditionalCall ==
    /\ conditional.pc \in {"made", "exited", "returned"}
    /\ conditional.decorated
    /\ conditional' = [ConditionalWrapped(conditional) EXCEPT !.pc = "call"]
    /\ UNCHANGED <<baseVars, multiple>>

\* the function's body returns or raises
ConditionalReturn(raised) ==
    /\ conditional.pc = "call"
    /\ conditional' = [ConditionalWrappedReturn(conditional, raised)
                            EXCEPT !.pc = "returned"]
    /\ UNCHANGED <<baseVars, multiple>>

NextUtils ==
    \/ \E objs \in ObjectLists : MultipleInit(objs)
    \/ MultipleEnter
    \/ \E r \in BOOLEAN : MultipleExit(r)
    \/ MultipleCall
    \/ \E r \in BOOLEAN : MultipleReturn(r)
    \/ \E ca \in BOOLEAN, va \in BOOLEAN : ConditionalInit(ca, va)
    \/ ConditionalDecorate
    \/ ConditionChanges
    \/ ConditionalEnter
    \/ ConditionalExit
    \/ ConditionalCall
    \/ \E r \in BOOLEAN : ConditionalReturn(r)

SpecUtils == Init /\ [][NextUtils]_vars

(* ======================= the properties ======================= *)
\* the two consistent states of a path
Unpatched(p) ==
    /\ loc[p] = Real(p)
    /\ ~Has(_patchers, p)
    /\ p \notin DOMAIN _mocks
Patched(p) ==
    /\ Has(_patchers, p)
    /\ p \in DOMAIN _mocks
    /\ IsMock(_mocks[p])
    /\ loc[p] = _mocks[p]

\* C1: in every reachable state a path has an entry in the handle table _patchers
\* if and only if it has an entry in the active-substitute table _mocks.
C1_TablesInLockstep == Keys(_patchers) = DOMAIN _mocks

\* C2: start_patching() called while some path has a live handle warns, and leaves
\* that path's handle and location as they were: no second patcher is started over it.
C2_RestartKeepsHandles ==
    [][(StartPatching(None) /\ _patchers # <<>>)
        => /\ last'.warned
           /\ \A n \in Keys(_patchers) :
                /\ Has(_patchers', n)
                /\ Get(_patchers', n) = Get(_patchers, n)
                /\ loc'[n] = loc[n]]_vars

\* C3: at most one handle per path is live: start_patching(name) for a path that has
\* a live handle is flagged by a warning or an error, never accepted silently.
C3_SecondStartFlagged ==
    [][\A n \in Paths :
        (StartPatching(n) /\ Has(_patchers, n))
            => (last'.warned \/ last'.err # "none")]_vars

\* C4: whenever no scoped extent is open, every registered path is either unpatched
\* (real implementation at its location, absent from both tables) or patched (live
\* handle, and the location holds the substitute the active-substitute table records).
C4_UnpatchedOrPatched ==
    stack = <<>> => \A p \in Keys(_factory_map) : Unpatched(p) \/ Patched(p)

\* C5: start_patching() run in a fully unpatched state and followed at once by
\* stop_patching() leaves every path's location holding the real implementation and
\* both tables empty.
C5_StartStopRoundTrip ==
    (last.op = "stop_patching" /\ last.path = None /\ last.after_clean_start)
        => /\ last.err = "none"
           /\ _factory_map # <<>> => ~last.warned
           /\ FullyUnpatched(Cur)
C5_Witness ==
    /\ last.op = "stop_patching" /\ last.path = None /\ last.after_clean_start
    /\ Len(_factory_map) = 2
    /\ nmocks >= 2

\* C6: after start_patching() run to completion in a fully unpatched state, every
\* registered path has in _mocks a substitute built by the factory now registered
\* for it, called with no arguments, the path's location holds that same substitute,
\* and no two paths share one.
C6_DefaultSubstitutes ==
    last.clean_start =>
        /\ DOMAIN _mocks = Keys(_factory_map)
        /\ \A i \in DOMAIN _factory_map :
             LET p == _factory_map[i].k
             IN /\ IsMock(_mocks[p])
                /\ _mocks[p].fac = _factory_map[i].v
                /\ _mocks[p].arg = NoArgs
                /\ loc[p] = _mocks[p]
                /\ \A q \in DOMAIN _mocks : q # p => _mocks[q] # _mocks[p]
C6_Witness ==
    /\ last.clean_start
    /\ Len(_factory_map) = 2
    /\ _factory_map[1].v # _factory_map[2].v

\* C7: when a swap_mock extent over a path ends, the path's location again holds what
\* it held immediately before entry and the path's entry in _mocks is what it was
\* immediately before entry (the same substitute, or no entry): so a prior substitute
\* is back at both places, and a path that was real and had no entry is so again.
C7_SwapExitRestores ==
    [][\A fo \in Forms, r \in BOOLEAN :
        (stack # <<>> /\ Top.kind = "swap_mock" /\ Exit(fo, r))
            => LET p == Top.path
                   before == Top._original
               IN /\ loc'[p] = Top.temp_original
                  /\ (p \in DOMAIN before) = (p \in DOMAIN _mocks')
                  /\ p \in DOMAIN before => _mocks'[p] = before[p]
                  /\ (p \in DOMAIN before /\ before[p] = Top.temp_original)
                        => (loc'[p] = _mocks'[p] /\ loc'[p] # Top.new)
                  /\ (p \notin DOMAIN before /\ Top.temp_original = Real(p))
                        => (loc'[p] = Real(p) /\ p \notin DOMAIN _mocks')]_vars
C7_Witness ==
    /\ last.op = "swap_mock_exit"
    /\ Patched(last.path)
    /\ _mocks[last.path].arg = NoArgs

\* C8: once a swap_mock extent over a path is entered, the path's location and
\* get_mock(path) are one and the same substitute, built with the arguments supplied:
\* in with-block form a new one, just built by the factory registered for the path
\* and yielded by the block; in decorator form the one the decorator was built with.
C8_SwapEnterInstalls ==
    (last.op = "swap_enter" /\ last.err = "none") =>
        LET p == last.path
        IN /\ stack # <<>>
           /\ Top.kind = "swap_mock" /\ Top.path = p
           /\ IsMock(Top.new)
           /\ Top.new.arg = SwapArgs
           /\ loc[p] = Top.new
           /\ p \in DOMAIN _mocks /\ _mocks[p] = Top.new
           /\ last.form = "with" =>
                /\ last.yield = Top.new
                /\ Top.new.fac = Get(_factory_map, p)
                /\ Top.new.ser = nmocks
                /\ Top.new # Top.temp_original
           /\ last.form = "decorator" => Top.new = decorators[Top.dec].new
C8_Witness ==
    /\ last.op = "swap_enter" /\ last.err = "none" /\ last.form = "with"
    /\ Has(_patchers, last.path)
    /\ Get(_patchers, last.path).new = Top.temp_original

\* C9: an unmock extent, with-block or decorated call, patches its path again on
\* every exit path: after it ends because the wrapped code raised, the path has a
\* live handle and an entry in _mocks.
C9_UnmockRepatchesOnRaise ==
    (last.op = "unmock_exit" /\ last.raised /\ last.err = "none")
        => (Has(_patchers, last.path) /\ last.path \in DOMAIN _mocks)

\* C10: when the code wrapped by a swap_mock, with-block or decorated call, raises,
\* the extent still ends by putting back the location's prior value and the whole of
\* _mocks as it was at entry, and touches nothing else.
C10_SwapRestoresOnRaise ==
    [][\A fo \in Forms :
        (stack # <<>> /\ Top.kind = "swap_mock" /\ Exit(fo, TRUE))
            => /\ loc' = [loc EXCEPT ![Top.path] = Top.temp_original]
               /\ _mocks' = Top._original
               /\ _patchers' = _patchers
               /\ _factory_map' = _factory_map
               /\ stack' = SubSeq(stack, 1, Len(stack) - 1)
               /\ last'.err = "none"]_vars
C10_Witness ==
    /\ last.op = "swap_mock_exit" /\ last.raised /\ last.form = "decorator"
    /\ Patched(last.path)
    /\ _mocks[last.path].arg = NoArgs

\* the extent that encloses the innermost one
Below == stack[Len(stack) - 1]

\* C11: two swap_mock extents over one path, the second entered right inside the first
\* in a patched session, unwind last-in-first-out: when the inner one ends, the outer
\* one's substitute is at the location and in _mocks; when the outer one then ends, the
\* default substitute start_patching() had built is at the location and in _mocks.
C11_NestedSwapsUnwindLIFO ==
    [][\A fo \in Forms, r \in BOOLEAN :
        /\ (/\ Len(stack) >= 2
             /\ Top.kind = "swap_mock" /\ Below.kind = "swap_mock" /\ Below.path = Top.path
             /\ Top.temp_original = Below.new
             /\ Top.path \in DOMAIN Top._original /\ Top._original[Top.path] = Below.new
             /\ Exit(fo, r))
                => /\ loc'[Top.path] = Below.new
                   /\ Top.path \in DOMAIN _mocks' /\ _mocks'[Top.path] = Below.new
                   /\ loc'[Top.path] # Top.new
                   /\ stack'[Len(stack')] = Below
        /\ (/\ stack # <<>>
             /\ Top.kind = "swap_mock"
             /\ last.op = "swap_mock_exit" /\ last.path = Top.path
             /\ Has(_patchers, Top.path)
             /\ Top.temp_original = Get(_patchers, Top.path).new
             /\ Top.path \in DOMAIN Top._original
             /\ Top._original[Top.path] = Top.temp_original
             /\ Exit(fo, r))
                => /\ loc'[Top.path] = Get(_patchers', Top.path).new
                   /\ Top.path \in DOMAIN _mocks'
                   /\ _mocks'[Top.path] = loc'[Top.path]
                   /\ _mocks'[Top.path].arg = NoArgs
                   /\ loc'[Top.path] # Top.new]_vars
\* the inner extent has ended inside a patched session and the outer one is still open
C11_Witness ==
    /\ last.op = "swap_mock_exit"
    /\ Len(stack) = 1 /\ Top.kind = "swap_mock" /\ Top.path = last.path
    /\ loc[Top.path] = Top.new /\ _mocks[Top.path] = Top.new
    /\ nmocks = Top.new.ser + 1
    /\ Has(_patchers, Top.path)
    /\ Top.temp_original = Get(_patchers, Top.path).new
    /\ Top._original[Top.path] = Top.temp_original

\* C12: a swap_mock looks its factory up and builds its substitute on entry, not when
\* it is constructed: constructing one for a path that only the registration imports
\* register does not fail before start_patching has imported them, and every entry of
\* the decorated function installs a substitute just built by the factory registered
\* for the path at that moment.
C12_SwapBuildsOnEntry ==
    /\ (last.op = "swap_init" /\ last.path = RegModulePath) => last.err # "KeyError"
    /\ (last.op = "swap_enter" /\ last.form = "decorator" /\ last.err = "none")
            => /\ Top.new.fac = Get(_factory_map, last.path)
               /\ Top.new.ser = nmocks

\* C13: entering unmock(name) while name is patched succeeds and leaves the real
\* implementation at name's location and no entry for name in _mocks (get_mock(name)
\* fails) or in _patchers, with the handle, the substitute and the location of every
\* other path as they were.
C13_UnmockEnterFrame ==
    [][\A n \in Paths :
        (Patched(n) /\ UnmockEnter(n))
            => /\ last'.err = "none"
               /\ loc'[n] = Real(n)
               /\ last'.yield = Real(n)
               /\ n \notin DOMAIN _mocks'
               /\ ~Has(_patchers', n)
               /\ \A q \in Paths \ {n} :
                    /\ loc'[q] = loc[q]
                    /\ Has(_patchers', q) = Has(_patchers, q)
                    /\ Has(_patchers, q) => Get(_patchers', q) = Get(_patchers, q)
                    /\ (q \in DOMAIN _mocks') = (q \in DOMAIN _mocks)
                    /\ q \in DOMAIN _mocks => _mocks'[q] = _mocks[q]]_vars

\* C14: when an unmock(name) extent ends through __exit__ or through the return of the
\* decorated function, name is patched again with a substitute built at that moment by
\* the factory registered for name, called with no arguments: it is at the location,
\* in _mocks and in the new handle, and it is neither the substitute active before the
\* entry nor the one of an enclosing swap_mock.
C14_UnmockExitFreshDefault ==
    [][\A fo \in Forms, r \in BOOLEAN :
        (stack # <<>> /\ Top.kind = "unmock" /\ (fo = "with" \/ ~r) /\ Exit(fo, r))
            => LET n == Top.path
               IN /\ last'.err = "none"
                  /\ nmocks' = nmocks + 1
                  /\ n \in DOMAIN _mocks'
                  /\ _mocks'[n] = NewMock(Get(_factory_map', n), NoArgs, nmocks')
                  /\ loc'[n] = _mocks'[n]
                  /\ Has(_patchers', n) /\ Get(_patchers', n).new = _mocks'[n]
                  /\ \A i \in DOMAIN stack : stack[i].new # _mocks'[n]
                  /\ \A q \in Paths : loc[q] # _mocks'[n]]_vars
\* start_patching(), swap_mock entered, unmock entered and ended inside it
C14_Witness ==
    /\ last.op = "unmock_exit" /\ last.err = "none"
    /\ stack # <<>> /\ Top.kind = "swap_mock" /\ Top.path = last.path
    /\ Top.new.ser = 2 /\ nmocks = 3
    /\ _mocks[last.path].ser = 3 /\ _mocks[last.path].arg = NoArgs
    /\ loc[last.path] = _mocks[last.path]

\* the tables and the locations are as they were
StateUntouched ==
    UNCHANGED <<_factory_map, _patchers, _mocks, loc, sys_modules, settings, decorators, stack,
                nmocks>>

\* C15: entering unmock(name) while name has no live handle fails with the KeyError of
\* stop_patching(name), opens no extent, and leaves _patchers, _mocks and every
\* location as they were.
C15_UnmockUnpatchedFails ==
    [][\A n \in Paths :
        (~Has(_patchers, n) /\ UnmockEnter(n))
            => /\ last'.err = "KeyError"
               /\ StateUntouched]_vars
\* the entry failed for one path while the other one was patched
C15_Witness ==
    /\ last.op = "unmock_enter" /\ last.err = "KeyError"
    /\ _patchers # <<>> /\ ~Has(_patchers, last.path)
    /\ \E q \in Paths : Patched(q)

\* C16: stop_patching(name) for a name with a live handle releases that handle (the
\* location gets back what the handle had saved) and removes name from _patchers and
\* from _mocks, without an error when name was in both, and leaves the handle, the
\* substitute and the location of every other path as they were; for a name with no
\* live handle it fails with KeyError and changes nothing.
C16_StopOneFrame ==
    [][\A n \in Paths :
        /\ (Has(_patchers, n) /\ StopPatching(n))
                => /\ ~Has(_patchers', n)
                   /\ n \notin DOMAIN _mocks'
                   /\ loc'[n] = Get(_patchers, n).temp_original
                   /\ n \in DOMAIN _mocks => last'.err = "none"
                   /\ _patchers' = DictDel(_patchers, n)
                   /\ \A q \in Paths \ {n} :
                        /\ loc'[q] = loc[q]
                        /\ (q \in DOMAIN _mocks') = (q \in DOMAIN _mocks)
                        /\ q \in DOMAIN _mocks => _mocks'[q] = _mocks[q]
        /\ (~Has(_patchers, n) /\ StopPatching(n))
                => /\ last'.err = "KeyError"
                   /\ StateUntouched]_vars
\* one of two patched paths was stopped and the other one is still patched
C16_Witness ==
    /\ last.op = "stop_patching" /\ last.path # None /\ last.err = "none"
    /\ Unpatched(last.path)
    /\ \E q \in Paths \ {last.path} : Patched(q)

\* the first turn of the loop over the registry fm whose factory raises (0: none does)
FailingIndex(fm) ==
    IF \E i \in DOMAIN fm : fm[i].v = RaisingFactory
    THEN CHOOSE i \in DOMAIN fm :
            /\ fm[i].v = RaisingFactory
            /\ \A j \in 1..(i - 1) : fm[j].v # RaisingFactory
    ELSE 0

\* C17: start_patching() run in a fully unpatched state over a registry one of whose
\* factories raises ends with that factory's error; the paths registered before the
\* failing one are patched, each with a handle and with its substitute in _mocks and
\* at its location; the failing path and the ones after it have no handle, no entry
\* in _mocks and the real implementation at their location.
C17_FailingFactoryAborts ==
    [][(FullyUnpatched(Cur) /\ StartPatching(None) /\ FailingIndex(_factory_map') > 0)
        => LET fm == _factory_map'
               k == FailingIndex(fm)
           IN /\ last'.err = "FactoryError"
              /\ nmocks' = nmocks + (k - 1)
              /\ \A i \in 1..(k - 1) :
                    /\ Has(_patchers', fm[i].k)
                    /\ fm[i].k \in DOMAIN _mocks'
                    /\ _mocks'[fm[i].k] = NewMock(fm[i].v, NoArgs, nmocks + i)
                    /\ loc'[fm[i].k] = _mocks'[fm[i].k]
                    /\ Get(_patchers', fm[i].k) =
                            [new |-> _mocks'[fm[i].k], temp_original |-> Real(fm[i].k)]
              /\ \A i \in k..Len(fm) :
                    /\ ~Has(_patchers', fm[i].k)
                    /\ fm[i].k \notin DOMAIN _mocks'
                    /\ loc'[fm[i].k] = Real(fm[i].k)]_vars
\* the second of two registered factories raised: the first path is patched, by the
\* only substitute built so far, and the second is not
C17_Witness ==
    /\ last.op = "start_patching" /\ last.path = None /\ last.err = "FactoryError"
    /\ Len(_factory_map) = 2 /\ FailingIndex(_factory_map) = 2
    /\ nmocks = 1
    /\ Patched(_factory_map[1].k)
    /\ Unpatched(_factory_map[2].k)

\* C18: stop_patching() called while no handle is live warns, raises nothing and
\* changes nothing; start_patching() called while the registry is empty and stays so
\* (no registration import is pending) raises nothing and changes nothing, and so
\* does stop_patching() called while the registry is empty.
C18_NothingToStopOrStart ==
    [][/\ (_patchers = <<>> /\ StopPatching(None))
            => /\ last'.warned
               /\ last'.err = "none"
               /\ StateUntouched
       /\ (_pre_import(Cur).fm = <<>> /\ StartPatching(None))
            => /\ last'.err = "none"
               /\ ~last'.warned
               /\ StateUntouched
       /\ (_factory_map = <<>> /\ StopPatching(None))
            => /\ last'.err = "none"
               /\ StateUntouched]_vars
\* start_patching() had nothing to start, and the stop_patching() after it nothing to
\* stop
C18_Witness ==
    /\ last.op = "stop_patching" /\ last.path = None
    /\ last.after_clean_start
    /\ last.warned /\ last.err = "none"
    /\ _factory_map = <<>>
    /\ FullyUnpatched(Cur)

\* the wrapped contexts whose __exit__ the last __exit__ of multiple invoked, in order
ExitsInvoked == SelectSeq(multiple.log, LAMBDA e : e.ev = "exit")

\* C19: MultipleContextDecorator.__exit__ invokes the __exit__ of every wrapped
\* context, in the order they were entered, also when the __exit__ of one of them
\* fails: the ones after it are still invoked.
C19_ExitReachesEveryContext ==
    multiple.pc = "exited"
        => ExitsInvoked = [i \in 1..Len(multiple._objects) |-> Event("exit", i)]

\* C20: a call of a function decorated with conditional(condition, ctx) applies ctx
\* around the call if and only if the condition, a fixed boolean or what the callable
\* returns, is true when the call is made, whatever it was when the function was
\* decorated; when it is false the function runs directly and ctx is left alone.
C20_ConditionReadAtCall ==
    [][ConditionalCall
        => /\ conditional'.applied = condition(conditional)
           /\ condition(conditional) => conditional'.context_object.enabled
           /\ ~condition(conditional)
                => conditional'.context_object = conditional.context_object]_vars
\* the callable returned false when the function was decorated and true at the call
C20_Witness ==
    /\ conditional.pc = "call"
    /\ conditional._condition.callable
    /\ ~conditional.at_decoration
    /\ conditional.applied
    /\ conditional.context_object.enabled

\* C21: entering multiple(c1, ..., cn) enters c1..cn in constructor order and collects
\* what they yield: inside the block the length is n, index i holds what the i-th
\* wrapped context yielded (that context itself, with its value) and every wrapped
\* context is entered; after the block, none of whose exits failed, every wrapped
\* context has been exited.
C21_EnterCollectsInOrder ==
    LET n == Len(multiple._objects)
    IN /\ multiple.pc = "with"
            => /\ Multiple__len__(multiple) = n
               /\ multiple.log = [i \in 1..n |-> Event("enter", i)]
               /\ \A i \in 1..n :
                    /\ multiple._contexts[i] = i
                    /\ Multiple__getitem__(multiple, i) = multiple._objects[i]
                    /\ Multiple__getitem__(multiple, i).enabled
       /\ (multiple.pc = "exited" /\ \A i \in 1..n : ~multiple._objects[i].exit_raises)
            => /\ multiple.err = "none"
               /\ ExitsInvoked = [i \in 1..n |-> Event("exit", i)]
               /\ \A i \in 1..n : ~multiple._objects[i].enabled
               /\ Multiple__len__(multiple) = n
\* a block over two contexts of different values has ended
C21_Witness ==
    /\ multiple.pc = "exited"
    /\ Len(multiple._objects) = 2
    /\ multiple._objects[1].value # multiple._objects[2].value
    /\ \A i \in 1..2 : ~multiple._objects[i].exit_raises /\ ~multiple._objects[i].enabled
    /\ multiple._contexts = <<1, 2>>

\* C22: a function decorated with multiple(c1, ..., cn) is wrapped by c1 first and by
\* cn last, so a call runs the wrappers from cn, the outermost, to c1, the innermost,
\* the reverse of the order a with-block enters them; all of them are active while the
\* function's body runs, and once it has returned they have finished from c1 out to
\* cn and none is active.
C22_DecoratorWrapsInReverse ==
    LET n == Len(multiple._objects)
        wrappers == [i \in 1..n |-> Event("enter", n + 1 - i)]
    IN /\ multiple.pc = "call"
            => /\ multiple.log = wrappers
               /\ \A i \in 1..n : multiple._objects[i].enabled
       /\ (multiple.pc = "returned" /\ ~multiple.raised)
            => /\ multiple.log = wrappers \o [i \in 1..n |-> Event("exit", i)]
               /\ \A i \in 1..n : ~multiple._objects[i].enabled
\* a call of a function decorated over two contexts has returned
C22_Witness ==
    /\ multiple.pc = "returned" /\ ~multiple.raised
    /\ Len(multiple._objects) = 2
    /\ Len(multiple.log) = 4
    /\ multiple.log[1] = Event("enter", 2)
    /\ \A i \in 1..2 : ~multiple._objects[i].enabled

\* C23: get_called_mocks() returns exactly the entries of _mocks whose substitute was
\* invoked at least once, each with that substitute; it changes nothing; and called
\* again at once it returns the same.
C23_CalledMocksExact ==
    [][GetCalledMocks
        => /\ DOMAIN last'.yield = {n \in DOMAIN _mocks : _mocks[n].ser \in called}
           /\ \A n \in DOMAIN last'.yield : last'.yield[n] = get_mock(_mocks, n)
           /\ UNCHANGED <<_factory_map, _patchers, _mocks, loc, sys_modules, settings,
                          decorators, stack, nmocks, called>>
           /\ last.op = "get_called_mocks" => last'.yield = last.yield]_vars
\* of two active substitutes one was invoked and is returned, the other is left out
C23_Witness ==
    /\ last.op = "get_called_mocks"
    /\ DOMAIN last.yield # {}
    /\ DOMAIN last.yield # DOMAIN _mocks
    /\ \E n \in DOMAIN last.yield : _mocks[n] = last.yield[n] /\ loc[n] = _mocks[n]

\* C24: a registration leaves its identifier mapped to exactly one factory, the one it
\* gave (the decorated function, when the value register returned decorates one); it
\* does not fail, keeps every other identifier with its factory, and leaves
\* _patchers, _mocks and every location as they were.
C24_LastWriterWins ==
    [][\A p \in Paths, fa \in Factories :
         LET Registered(factory) ==
                 /\ Cardinality({i \in DOMAIN _factory_map' : _factory_map'[i].k = p}) = 1
                 /\ Get(_factory_map', p) = factory
                 /\ \A q \in Keys(_factory_map) \ {p} :
                        /\ Cardinality({i \in DOMAIN _factory_map' :
                                           _factory_map'[i].k = q}) = 1
                        /\ Get(_factory_map', q) = Get(_factory_map, q)
                 /\ Keys(_factory_map') = Keys(_factory_map) \cup {p}
                 /\ last'.err = "none" /\ ~last'.raised
                 /\ UNCHANGED <<_patchers, _mocks, loc>>
         IN /\ Reregister(p, fa) => Registered(fa)
            /\ \A dfa \in Factories : RegisterDecorated(p, fa, dfa) => Registered(dfa)
      ]_vars
\* g, registered with mock_factory by the imported module and patched, was registered
\* again, with a decorated function, and now maps to that function, f keeping its own
C24_Witness ==
    /\ last.op = "register" /\ last.form = "decorator" /\ last.path = RegModulePath
    /\ RegModule \in sys_modules
    /\ RegModulePath \in DOMAIN _mocks /\ _mocks[RegModulePath].fac = RegModuleFactory
    /\ Get(_factory_map, RegModulePath) = RaisingFactory
    /\ Has(_factory_map, "f") /\ Get(_factory_map, "f") = DefaultFactory

\* C25: an activate() extent, with-block or decorated call, stops every patch on every
\* exit path: after it ends because the wrapped code raised, every registered path's
\* location holds its real implementation and _patchers and _mocks are empty.
C25_ActivateStopsOnRaise ==
    (last.op = "activate_exit" /\ last.raised)
        => /\ \A p \in Keys(_factory_map) : loc[p] = Real(p)
           /\ _patchers = <<>>
           /\ _mocks = EmptyMap

\* C26: the end of a swap_mock extent over a path changes only that path's entry in
\* _mocks: every other path is in _mocks right after the exit exactly when it was
\* right before, and with the same substitute.
C26_SwapExitFrame ==
    [][\A fo \in Forms, r \in BOOLEAN :
        (stack # <<>> /\ Top.kind = "swap_mock" /\ Exit(fo, r))
            => \A b \in Paths \ {Top.path} :
                 /\ (b \in DOMAIN _mocks') <=> (b \in DOMAIN _mocks)
                 /\ b \in DOMAIN _mocks => _mocks'[b] = _mocks[b]]_vars

\* C27: for a with-block over conditional(condition, ctx), the exit of ctx is invoked
\* exactly when its enter was invoked for that block, also when the condition is a
\* callable whose result changes inside the block; and a block entered with a false
\* condition invokes no enter and yields None.
C27_ExitIffEnter ==
    /\ conditional.pc = "exited" => (conditional.exited <=> conditional.entered)
    /\ (conditional.pc = "with" /\ ~conditional.entered) => conditional.yield = None
====
